---------------------------- MODULE Spec2Model ----------------------------
(***************************************************************************)
(* Simplified DES (S-DES) as implemented by class SDES in src/o.py.        *)
(*                                                                         *)
(* Python lists are TLA+ sequences.  Python indexes from 0 and TLA+ from   *)
(* 1, so sequence[i-1] of the source is sequence[i] here and the S-box     *)
(* cell sbox[row][col] is sbox[row + 1][col + 1].  A raised IndexError is  *)
(* the value IndexError, which every caller passes on as Python's          *)
(* exception propagation does.  A method is modelled by the record of      *)
(* what the call leaves behind: the instance, the argument object and the  *)
(* returned value.                                                         *)
(***************************************************************************)
EXTENDS Integers, Sequences, FiniteSets, TLC

VARIABLES
    key,        \* the key given to the constructor
    sdes,       \* the SDES instance (NoInstance before construction)
    block,      \* the block the caller starts from
    calls,      \* the methods called so far on the instance, in order
    inp,        \* value of the argument of the last call, before the call
    arg,        \* the same argument object after the call
    ret,        \* value returned by the last call
    fr,         \* locals of the last feistel call observed on its own
    sh,         \* last left_shift call observed on its own: half, shifts, ret
    insts,      \* two independently constructed instances
    seen        \* per instance, the <<block, ciphertext>> pairs encrypt returned

vars == <<key, sdes, block, calls, inp, arg, ret, fr, sh, insts, seen>>

-----------------------------------------------------------------------------
(* Values *)

IndexError == <<-1>>

\* No instance yet, and the outcome of a constructor that raised.
NoInstance == [raised |-> "none"]

Failed == [raised |-> "IndexError"]

Constructed(s) == s # NoInstance /\ s # Failed

\* No call observed yet.
NoCall == [op |-> "none"]

None == <<>>

Bit == {0, 1}

\* All sequences of length n over the set S.
SeqsOf(S, n) == [1..n -> S]

-----------------------------------------------------------------------------
(* The tables set by __init__ *)

P10 == <<3, 5, 2, 7, 4, 10, 1, 9, 8, 6>>

P8 == <<6, 3, 7, 4, 8, 5, 10, 9>>

IP == <<2, 6, 3, 1, 4, 8, 5, 7>>

\* IP_INV with its last two entries exchanged.
IP_INV_typo == <<4, 1, 3, 5, 7, 2, 6, 8>>

IP_INV == <<4, 1, 3, 5, 7, 2, 8, 6>>

EP == <<4, 1, 2, 3, 2, 3, 4, 1>>

P4 == <<2, 4, 3, 1>>

S0 == << <<1, 0, 3, 2>>, <<3, 2, 1, 0>>, <<0, 2, 1, 3>>, <<3, 1, 3, 2>> >>

S1 == << <<0, 1, 2, 3>>, <<2, 0, 1, 3>>, <<3, 0, 1, 0>>, <<2, 1, 0, 3>> >>

\* The usage example's key and plaintext.
example_key == <<1, 0, 1, 0, 0, 0, 0, 0, 1, 0>>

example_plaintext == <<1, 1, 0, 1, 0, 1, 1, 1>>

-----------------------------------------------------------------------------
(* Python's integer operators *)

\* a ^ b on non-negative integers.
RECURSIVE xor(_, _)
xor(a, b) ==
    IF a = 0 THEN b
    ELSE IF b = 0 THEN a
    ELSE ((a + b) % 2) + 2 * xor(a \div 2, b \div 2)

\* f"{value:b}": the binary digits of value, most significant first.
RECURSIVE format_b(_)
format_b(value) ==
    IF value < 2 THEN <<value>>
    ELSE format_b(value \div 2) \o <<value % 2>>

\* f"{value:02b}": the same, padded on the left with zeros to width 2.
format_02b(value) ==
    LET d == format_b(value)
    IN  IF Len(d) < 2 THEN <<0>> \o d ELSE d

-----------------------------------------------------------------------------
(* SDES.permute, SDES.left_shift *)

permute(sequence, table) ==
    IF \E j \in 1..Len(table) : table[j] > Len(sequence)
    THEN IndexError
    ELSE [j \in 1..Len(table) |-> sequence[table[j]]]

\* half[shifts:] + half[:shifts] for shifts >= 0; a slice bound beyond the
\* end of the list is clamped to its length.
left_shift(half, shifts) ==
    LET n == Len(half)
        cut == IF shifts > n THEN n ELSE shifts
    IN  SubSeq(half, cut + 1, n) \o SubSeq(half, 1, cut)

-----------------------------------------------------------------------------
(* SDES.generate_keys *)

\* generate_keys with K2 taken from the P10 output shifted by 2, not from
\* the halves already shifted for K1.
generate_keys_not_cumulative(self) ==
    LET k == permute(self.key, self.P10)
        left0 == SubSeq(k, 1, 5)
        right0 == SubSeq(k, 6, Len(k))
        left1 == left_shift(left0, 1)
        right1 == left_shift(right0, 1)
        K1 == permute(left1 \o right1, self.P8)
        left2 == left_shift(left0, 2)
        right2 == left_shift(right0, 2)
        K2 == permute(left2 \o right2, self.P8)
    IN  IF k = IndexError THEN IndexError
        ELSE IF K1 = IndexError THEN IndexError
        ELSE IF K2 = IndexError THEN IndexError
        ELSE <<K1, K2>>

\* The pair <<K1, K2>>, or IndexError when self.key is shorter than P10 asks.
generate_keys(self) ==
    LET k == permute(self.key, self.P10)
        left0 == SubSeq(k, 1, 5)
        right0 == SubSeq(k, 6, Len(k))
        left1 == left_shift(left0, 1)
        right1 == left_shift(right0, 1)
        K1 == permute(left1 \o right1, self.P8)
        left2 == left_shift(left1, 2)
        right2 == left_shift(right1, 2)
        K2 == permute(left2 \o right2, self.P8)
    IN  IF k = IndexError THEN IndexError
        ELSE IF K1 = IndexError THEN IndexError
        ELSE IF K2 = IndexError THEN IndexError
        ELSE <<K1, K2>>

-----------------------------------------------------------------------------
(* SDES.sbox *)

\* sbox with the row taken from the middle bits and the column from the
\* outer bits.
sbox_locals_swapped(half, sbox) ==
    LET row == 2 * half[2] + half[3]
        col == 2 * half[1] + half[4]
        inside == row + 1 <= Len(sbox) /\ col + 1 <= Len(sbox[row + 1])
        value == IF inside THEN sbox[row + 1][col + 1] ELSE -1
    IN  [row |-> row, col |-> col, value |-> value,
         ret |-> IF inside THEN format_02b(value) ELSE IndexError]

\* The locals of one sbox call: row, col, value and the returned list.
sbox_locals(half, sbox) ==
    LET row == 2 * half[1] + half[4]
        col == 2 * half[2] + half[3]
        inside == row + 1 <= Len(sbox) /\ col + 1 <= Len(sbox[row + 1])
        value == IF inside THEN sbox[row + 1][col + 1] ELSE -1
    IN  [row |-> row, col |-> col, value |-> value,
         ret |-> IF inside THEN format_02b(value) ELSE IndexError]

sbox(half, table) == sbox_locals(half, table).ret

-----------------------------------------------------------------------------
(* SDES.feistel *)

\* The locals of one feistel call and the returned list.
feistel_locals(self, half, subkey) ==
    LET expanded == permute(half, self.EP)
        xor_result == [i \in 1..8 |-> xor(expanded[i], subkey[i])]
        left == SubSeq(xor_result, 1, 4)
        right == SubSeq(xor_result, 5, 8)
        s0 == sbox_locals(left, self.S0)
        s1 == sbox_locals(right, self.S1)
        sbox_output == s0.ret \o s1.ret
    IN  IF expanded = IndexError
        THEN [half |-> half, subkey |-> subkey, ret |-> IndexError]
        ELSE [half |-> half, subkey |-> subkey, expanded |-> expanded,
              xor_result |-> xor_result, left |-> left, right |-> right,
              s0 |-> s0, s1 |-> s1,
              ret |-> IF s0.ret = IndexError \/ s1.ret = IndexError
                      THEN IndexError
                      ELSE permute(sbox_output, self.P4)]

feistel(self, half, subkey) == feistel_locals(self, half, subkey).ret

-----------------------------------------------------------------------------
(* SDES.encrypt, SDES.decrypt *)

\* [left[i] ^ bit for i, bit in enumerate(f)]
xor_with(left, f) == [i \in 1..Len(f) |-> xor(left[i], f[i])]

\* What a call leaves behind: the instance, the caller's list and the
\* returned value (IndexError when the call raised).
Outcome(self, argument, value) ==
    [self |-> self, arg |-> argument, ret |-> value]

\* The two rounds of encrypt and decrypt on data = permute(block, IP) with
\* the halves swapped after both rounds.
rounds_swap_both(self, data, Ka, Kb) ==
    LET left0 == SubSeq(data, 1, 4)
        right0 == SubSeq(data, 5, Len(data))
        f1 == feistel(self, right0, Ka)
        left1 == xor_with(left0, f1)
        f2 == feistel(self, left1, Kb)
        left3 == xor_with(right0, f2)
    IN  IF f1 = IndexError THEN IndexError
        ELSE IF f2 = IndexError THEN IndexError
        ELSE permute(left1 \o left3, self.IP_INV)

\* The two rounds with no swap between them.
rounds_no_swap(self, data, Ka, Kb) ==
    LET left0 == SubSeq(data, 1, 4)
        right0 == SubSeq(data, 5, Len(data))
        f1 == feistel(self, right0, Ka)
        left1 == xor_with(left0, f1)
        f2 == feistel(self, right0, Kb)
        left3 == xor_with(left1, f2)
    IN  IF f1 = IndexError THEN IndexError
        ELSE IF f2 = IndexError THEN IndexError
        ELSE permute(left3 \o right0, self.IP_INV)

\* encrypt with a swap after round 2 as well.
encrypt_swap_both(self, plaintext) ==
    LET data == permute(plaintext, self.IP)
    IN  Outcome(self, plaintext,
            IF data = IndexError THEN IndexError
            ELSE rounds_swap_both(self, data, self.K1, self.K2))

\* The two rounds with the swap after round 1 only.
rounds_swap_once(self, data, Ka, Kb) ==
    LET left0 == SubSeq(data, 1, 4)
        right0 == SubSeq(data, 5, Len(data))
        f1 == feistel(self, right0, Ka)
        left1 == xor_with(left0, f1)
        f2 == feistel(self, left1, Kb)
        left3 == xor_with(right0, f2)
    IN  IF f1 = IndexError THEN IndexError
        ELSE IF f2 = IndexError THEN IndexError
        ELSE permute(left3 \o left1, self.IP_INV)

\* encrypt that permutes the caller's list in place.
encrypt_in_place(self, plaintext) ==
    LET data == permute(plaintext, self.IP)
    IN  Outcome(self, data,
            IF data = IndexError THEN IndexError
            ELSE rounds_swap_once(self, data, self.K1, self.K2))

encrypt(self, plaintext) ==
    LET data == permute(plaintext, self.IP)
        left0 == SubSeq(data, 1, 4)
        right0 == SubSeq(data, 5, Len(data))
        \* Round 1
        temp == right0
        f1 == feistel(self, right0, self.K1)
        left1 == xor_with(left0, f1)
        right2 == left1
        left2 == temp
        \* Round 2
        f2 == feistel(self, right2, self.K2)
        left3 == xor_with(left2, f2)
    IN  Outcome(self, plaintext,
            IF data = IndexError THEN IndexError
            ELSE IF f1 = IndexError THEN IndexError
            ELSE IF f2 = IndexError THEN IndexError
            ELSE permute(left3 \o right2, self.IP_INV))

\* decrypt with the subkeys in encrypt's order.
decrypt_K1_first(self, ciphertext) == encrypt(self, ciphertext)

\* decrypt without the swap after round 1.
decrypt_no_swap(self, ciphertext) ==
    LET data == permute(ciphertext, self.IP)
    IN  Outcome(self, ciphertext,
            IF data = IndexError THEN IndexError
            ELSE rounds_no_swap(self, data, self.K2, self.K1))

\* decrypt done as encrypt on the instance with K1 and K2 exchanged, the
\* exchange left in place.
decrypt_swapping_keys(self, ciphertext) ==
    LET swapped == [self EXCEPT !.K1 = self.K2, !.K2 = self.K1]
    IN  Outcome(swapped, ciphertext, encrypt(swapped, ciphertext).ret)

decrypt(self, ciphertext) ==
    LET data == permute(ciphertext, self.IP)
        left0 == SubSeq(data, 1, 4)
        right0 == SubSeq(data, 5, Len(data))
        \* Round 1 (K2)
        temp == right0
        f1 == feistel(self, right0, self.K2)
        left1 == xor_with(left0, f1)
        right2 == left1
        left2 == temp
        \* Round 2 (K1)
        f2 == feistel(self, right2, self.K1)
        left3 == xor_with(left2, f2)
    IN  Outcome(self, ciphertext,
            IF data = IndexError THEN IndexError
            ELSE IF f1 = IndexError THEN IndexError
            ELSE IF f2 = IndexError THEN IndexError
            ELSE permute(left3 \o right2, self.IP_INV))

-----------------------------------------------------------------------------
(* SDES.__init__ *)

\* The fields assigned before generate_keys runs.
fields(k) ==
    [key |-> k, P10 |-> P10, P8 |-> P8, IP |-> IP, IP_INV |-> IP_INV,
     EP |-> EP, P4 |-> P4, S0 |-> S0, S1 |-> S1]

\* SDES(key): the constructed instance, or NoInstance with the error when
\* generate_keys raised.
SDES(k) ==
    LET self == fields(k)
        ks == generate_keys(self)
    IN  IF ks = IndexError THEN Failed
        ELSE [key |-> self.key, P10 |-> self.P10, P8 |-> self.P8,
              IP |-> self.IP, IP_INV |-> self.IP_INV, EP |-> self.EP,
              P4 |-> self.P4, S0 |-> self.S0, S1 |-> self.S1,
              K1 |-> ks[1], K2 |-> ks[2]]

-----------------------------------------------------------------------------
(* Inputs *)

\* Every 10-bit key, 8-bit block, 4-bit half and 8-bit subkey.
Keys == SeqsOf(Bit, Len(P10))

Blocks == SeqsOf(Bit, Len(IP))

Halves == SeqsOf(Bit, Len(P4))

Subkeys == SeqsOf(Bit, Len(P8))

-----------------------------------------------------------------------------
(* The script: key, sdes = SDES(key), then a call on the caller's block and *)
(* the inverse call on the block it returned, as in                         *)
(* ciphertext = sdes.encrypt(plaintext); decrypted = sdes.decrypt(ciphertext)*)
(* and in the other order.                                                  *)

Idle ==
    /\ fr = NoCall
    /\ sh = NoCall
    /\ insts = <<NoInstance, NoInstance>>
    /\ seen = <<{}, {}>>

Init ==
    /\ key \in Keys
    /\ sdes = NoInstance
    /\ block = None
    /\ calls = <<>>
    /\ inp = None
    /\ arg = None
    /\ ret = None
    /\ Idle

Construct ==
    /\ sdes = NoInstance
    /\ sdes' = SDES(key)
    /\ UNCHANGED <<key, block, calls, inp, arg, ret, fr, sh, insts, seen>>

\* A call of method name on argument b that left out behind.
Call(name, b, out) ==
    /\ sdes' = out.self
    /\ calls' = Append(calls, name)
    /\ inp' = b
    /\ arg' = out.arg
    /\ ret' = out.ret
    /\ UNCHANGED <<key, fr, sh, insts, seen>>

\* The first call, on a block of the caller's.
EncryptFirst ==
    /\ Constructed(sdes)
    /\ calls = <<>>
    /\ \E b \in Blocks :
          /\ block' = b
          /\ Call("encrypt", b, encrypt(sdes, b))

DecryptFirst ==
    /\ Constructed(sdes)
    /\ calls = <<>>
    /\ \E b \in Blocks :
          /\ block' = b
          /\ Call("decrypt", b, decrypt(sdes, b))

\* The second call, the inverse of the first, on the block the first returned.
DecryptBack ==
    /\ Constructed(sdes)
    /\ calls = <<"encrypt">>
    /\ block' = block
    /\ Call("decrypt", ret, decrypt(sdes, ret))

EncryptBack ==
    /\ Constructed(sdes)
    /\ calls = <<"decrypt">>
    /\ block' = block
    /\ Call("encrypt", ret, encrypt(sdes, ret))

Next ==
    Construct \/ EncryptFirst \/ DecryptFirst \/ DecryptBack \/ EncryptBack

Spec == Init /\ [][Next]_vars

-----------------------------------------------------------------------------
(* One call per instance. *)

NextOnce == Construct \/ EncryptFirst \/ DecryptFirst

SpecOnce == Init /\ [][NextOnce]_vars

-----------------------------------------------------------------------------
(* Construction alone, for every key. *)

NextKeys == Construct

SpecKeys == Init /\ [][NextKeys]_vars

-----------------------------------------------------------------------------
(* Two instances built independently from the same key, each called any     *)
(* number of times in any order.  seen[i] collects what the encrypt calls   *)
(* on instance i returned.                                                  *)

\* The blocks the callers pass: the example plaintext rotated by 0..MaxRot.
MaxRot == 1

TestBlocks == {left_shift(example_plaintext, r) : r \in 0..MaxRot}

InitCalls == Init

ConstructI(i) ==
    /\ insts[i] = NoInstance
    /\ insts' = [insts EXCEPT ![i] = SDES(key)]
    /\ UNCHANGED <<key, sdes, block, calls, inp, arg, ret, fr, sh, seen>>

EncryptI(i) ==
    /\ Constructed(insts[i])
    /\ \E b \in TestBlocks :
          LET out == encrypt(insts[i], b)
          IN  /\ insts' = [insts EXCEPT ![i] = out.self]
              /\ seen' = [seen EXCEPT ![i] = @ \cup {<<b, out.ret>>}]
    /\ UNCHANGED <<key, sdes, block, calls, inp, arg, ret, fr, sh>>

DecryptI(i) ==
    /\ Constructed(insts[i])
    /\ \E b \in TestBlocks :
          insts' = [insts EXCEPT ![i] = decrypt(insts[i], b).self]
    /\ UNCHANGED <<key, sdes, block, calls, inp, arg, ret, fr, sh, seen>>

NextCalls == \E i \in 1..2 : ConstructI(i) \/ EncryptI(i) \/ DecryptI(i)

SpecCalls == InitCalls /\ [][NextCalls]_vars

-----------------------------------------------------------------------------
(* feistel on its own: every 4-bit half with every 8-bit subkey, on the     *)
(* instance of the usage example.  inp holds the pair of arguments.         *)

InitFeistel ==
    /\ key = example_key
    /\ sdes = SDES(example_key)
    /\ block = None
    /\ calls = <<>>
    /\ inp \in Halves \X Subkeys
    /\ arg = None
    /\ ret = None
    /\ Idle

FeistelCall ==
    /\ fr = NoCall
    /\ fr' = feistel_locals(sdes, inp[1], inp[2])
    /\ UNCHANGED <<key, sdes, block, calls, inp, arg, ret, sh, insts, seen>>

NextFeistel == FeistelCall

SpecFeistel == InitFeistel /\ [][NextFeistel]_vars

-----------------------------------------------------------------------------
(* left_shift on its own: every bit list of 1..MaxLen elements with every   *)
(* shift of 0..2*MaxLen.                                                    *)

MaxLen == 5

ShiftHalves == UNION {SeqsOf(Bit, n) : n \in 1..MaxLen}

Shifts == 0..(2 * MaxLen)

InitShift ==
    /\ key = None
    /\ sdes = NoInstance
    /\ block = None
    /\ calls = <<>>
    /\ inp = None
    /\ arg = None
    /\ ret = None
    /\ Idle

ShiftCall ==
    /\ \E half \in ShiftHalves, shifts \in Shifts :
          sh' = [half |-> half, shifts |-> shifts,
                 ret |-> left_shift(half, shifts)]
    /\ UNCHANGED <<key, sdes, block, calls, inp, arg, ret, fr, insts, seen>>

NextShift == ShiftCall

SpecShift == InitShift /\ [][NextShift]_vars

-----------------------------------------------------------------------------
(* Callers that pass lists of the wrong length or with elements that are    *)
(* not bits: the example key and plaintext with the last element dropped,   *)
(* with one element added, or with one element replaced by MaxElem.         *)

MaxElem == 2

Variants(s) ==
    {s, SubSeq(s, 1, Len(s) - 1)}
        \cup {Append(s, e) : e \in 0..MaxElem}
        \cup {[s EXCEPT ![i] = MaxElem] : i \in 1..Len(s)}

InputKeys == Variants(example_key)

InputBlocks == Variants(example_plaintext)

InitInput == InitShift

ConstructIn ==
    /\ sdes = NoInstance
    /\ \E k \in InputKeys :
          /\ key' = k
          /\ sdes' = SDES(k)
    /\ UNCHANGED <<block, calls, inp, arg, ret, fr, sh, insts, seen>>

EncryptIn ==
    /\ Constructed(sdes)
    /\ calls = <<>>
    /\ \E b \in InputBlocks :
          /\ block' = b
          /\ Call("encrypt", b, encrypt(sdes, b))

DecryptIn ==
    /\ Constructed(sdes)
    /\ calls = <<>>
    /\ \E b \in InputBlocks :
          /\ block' = b
          /\ Call("decrypt", b, decrypt(sdes, b))

NextInput == ConstructIn \/ EncryptIn \/ DecryptIn

SpecInput == InitInput /\ [][NextInput]_vars

-----------------------------------------------------------------------------
(* Properties *)

Ran(name) == calls # <<>> /\ calls[Len(calls)] = name

\* XOR of two lists of bits, position by position.
BitXor(a, b) == [i \in 1..Len(a) |-> (a[i] + b[i]) % 2]

\* Left-circular rotation of h by r positions, r taken modulo Len(h).
rot(h, r) == [i \in 1..Len(h) |-> h[((i - 1 + r) % Len(h)) + 1]]

\* The list holds exactly n elements, each 0 or 1.
WellFormed(l, n) == Len(l) = n /\ \A i \in 1..Len(l) : l[i] \in Bit

\* C1: for every 10-bit key and every 8-bit block P, decrypting what
\* encrypt returned for P gives P back; for the example key and plaintext
\* the decrypted block is [1,1,0,1,0,1,1,1].
C1_RoundTrip ==
    calls = <<"encrypt", "decrypt">> =>
        /\ ret = block
        /\ (key = <<1, 0, 1, 0, 0, 0, 0, 0, 1, 0>>
               /\ block = <<1, 1, 0, 1, 0, 1, 1, 1>>)
              => ret = <<1, 1, 0, 1, 0, 1, 1, 1>>

C1_Witness ==
    /\ calls = <<"encrypt", "decrypt">>
    /\ key = example_key
    /\ block = example_plaintext
    /\ inp = <<1, 0, 1, 0, 1, 0, 0, 0>>
    /\ ret = example_plaintext

\* C2: two instances built from the same key hold the same K1 and the same
\* K2 whatever calls were made on either, and every ciphertext an encrypt
\* call returned for a block, on either instance and at any time, is the
\* same.
C2_Deterministic ==
    /\ \A i, j \in 1..2 :
          (Constructed(insts[i]) /\ Constructed(insts[j])) =>
              /\ insts[i].K1 = insts[j].K1
              /\ insts[i].K2 = insts[j].K2
    /\ \A i, j \in 1..2 : \A p \in seen[i], q \in seen[j] :
          p[1] = q[1] => p[2] = q[2]

C2_Witness ==
    /\ Constructed(insts[1])
    /\ Constructed(insts[2])
    /\ seen[1] = seen[2]
    /\ Cardinality(seen[1]) = 2

\* C3: a key that is not 10 bits makes the constructor raise, and a block
\* that is not 8 bits makes encrypt and decrypt raise: no instance is built
\* and no result is returned from malformed input.
C3_MalformedRejected ==
    /\ (sdes # NoInstance /\ ~WellFormed(key, 10)) => sdes = Failed
    /\ (calls # <<>> /\ ~WellFormed(inp, 8)) => ret = IndexError

\* C4: a call leaves every field of the constructed instance (key, K1, K2,
\* the six tables, the two S-boxes) as it was after construction, and
\* leaves the caller's list as it was passed.
C4_FrameStep ==
    Constructed(sdes) =>
        /\ sdes' = sdes
        /\ arg' = inp'

C4_Frame == [][C4_FrameStep]_vars

C4_Witness ==
    /\ calls = <<"decrypt", "encrypt">>
    /\ sdes = SDES(example_key)
    /\ arg = example_plaintext
    /\ inp = example_plaintext

\* C5: encrypt(P) is permute((R0 XOR feistel(L1, K2)) ++ L1, IP_INV) with
\* (L0, R0) the halves of permute(P, IP) and L1 = L0 XOR feistel(R0, K1).
C5_TwoRounds ==
    calls = <<"encrypt">> =>
        LET d == permute(block, IP)
            L0 == SubSeq(d, 1, 4)
            R0 == SubSeq(d, 5, 8)
            L1 == BitXor(L0, feistel(sdes, R0, sdes.K1))
        IN  ret = permute(BitXor(R0, feistel(sdes, L1, sdes.K2)) \o L1, IP_INV)

C5_Witness ==
    /\ calls = <<"encrypt">>
    /\ key = example_key
    /\ block = example_plaintext
    /\ ret = <<1, 0, 1, 0, 1, 0, 0, 0>>

\* C6: decrypt(C) is what encrypt returns for C on the same instance with
\* K2 in the place of K1 and K1 in the place of K2.
C6_DecryptIsEncryptReversed ==
    Ran("decrypt") =>
        ret = encrypt([sdes EXCEPT !.K1 = sdes.K2, !.K2 = sdes.K1], inp).ret

C6_Witness ==
    /\ calls = <<"decrypt">>
    /\ sdes.K1 # sdes.K2
    /\ ret # encrypt(sdes, inp).ret

\* C7: K1 is P8 of the halves of permute(key, P10) each rotated left by 1,
\* K2 is P8 of the same halves each rotated left by 3, and both have 8 bits.
C7_KeySchedule ==
    Constructed(sdes) =>
        LET p == permute(key, P10)
            left0 == SubSeq(p, 1, 5)
            right0 == SubSeq(p, 6, 10)
        IN  /\ sdes.K1 = permute(rot(left0, 1) \o rot(right0, 1), P8)
            /\ sdes.K2 = permute(rot(left0, 3) \o rot(right0, 3), P8)
            /\ WellFormed(sdes.K1, 8)
            /\ WellFormed(sdes.K2, 8)

C7_Witness ==
    /\ Constructed(sdes)
    /\ key = example_key
    /\ sdes.K1 = <<1, 0, 1, 0, 0, 1, 0, 0>>
    /\ sdes.K2 = <<0, 1, 0, 0, 0, 0, 1, 1>>

\* C8: left_shift(h, r) is h[r mod n:] ++ h[:r mod n] for every list h of
\* n >= 1 bits and every r >= 0.
C8_ShiftModLength ==
    sh # NoCall => sh.ret = rot(sh.half, sh.shifts)

\* C9: sbox returns exactly 2 bits, the binary form (most significant bit
\* first) of the table's value at row 2*half[0] + half[3] and column
\* 2*half[1] + half[2]; value, row and column are in 0..3.
SboxAsClaimed(half, table, s) ==
    LET row == 2 * half[1] + half[4]
        col == 2 * half[2] + half[3]
        v == table[row + 1][col + 1]
    IN  /\ row \in 0..3
        /\ col \in 0..3
        /\ s.row = row
        /\ s.col = col
        /\ v \in 0..3
        /\ s.value = v
        /\ Len(s.ret) = 2
        /\ s.ret = <<v \div 2, v % 2>>

C9_Sbox ==
    fr # NoCall =>
        /\ SboxAsClaimed(fr.left, S0, fr.s0)
        /\ SboxAsClaimed(fr.right, S1, fr.s1)

C9_Witness ==
    /\ fr # NoCall
    /\ fr.left = <<1, 1, 1, 1>>
    /\ fr.right = <<1, 0, 0, 1>>
    /\ fr.s0.ret = <<1, 0>>
    /\ fr.s1.ret = <<1, 0>>

\* C10: for every 10-bit key and every 8-bit block C, encrypting what
\* decrypt returned for C gives C back, so C is the ciphertext of an 8-bit
\* block.
C10_EncryptInvertsDecrypt ==
    calls = <<"decrypt", "encrypt">> =>
        /\ ret = block
        /\ WellFormed(inp, 8)

C10_Witness ==
    /\ calls = <<"decrypt", "encrypt">>
    /\ key = example_key
    /\ block = <<1, 0, 1, 0, 1, 0, 0, 0>>
    /\ inp = example_plaintext
    /\ ret = block

=============================================================================
